---- MODULE Spec2Model ----
(***************************************************************************)
(* Gym.ts: the Env / Wrapper contract (env.ts), the discrete MDP engine    *)
(* DiscreteEnv (envs/toy_text/discrete.ts), Seeding (utils/seeding.ts) and *)
(* the environment registry (envs/registration.ts).                        *)
(*                                                                         *)
(* Conventions of the model                                                *)
(*  - an optional value (T | undefined) is a sequence: <<>> is undefined,  *)
(*    <<v>> is the value v;                                                *)
(*  - a number passed as an action is a fixed-point value in units of      *)
(*    1/Scale, so that non-integers (0.5) are inputs as well;              *)
(*  - a probability is the numerator of a fraction over Den, and so is a   *)
(*    uniform variate of the random source;                                *)
(*  - objects live in the heap objs; the index of an object is its         *)
(*    identity and a reference is such an index.                           *)
(***************************************************************************)
EXTENDS Integers, Sequences, FiniteSets, TLC

VARIABLES
    objs,       \* the heap of Env objects (DiscreteEnv instances and Wrappers)
    last,       \* the most recent call made on an Env: [op, obj, arg, ret]
    pre,        \* the base Env as it was when that call was made (a heap of one)
    seeded,     \* per DiscreteEnv of the pair: the seed k of the last seed(k)
    log,        \* per DiscreteEnv of the pair: the calls since that seed(k)
    envSpecs,   \* EnvRegistry.envSpecs: the own properties of the object
    registered, \* history: the ids given to a register call that returned
    given,      \* history: id -> the args given to that register call
    regLast     \* the most recent registry call: [op, id, arg, ret, before, known]

vars == <<objs, last, pre, seeded, log, envSpecs, registered, given, regLast>>

(***************************************************************************)
(* Bounds                                                                  *)
(***************************************************************************)
MaxWrappers == 2    \* wrappers constructed around the base Env
MaxLog == 2         \* calls recorded per instance after a seed(k)
MaxSeed == 1        \* seeds k are drawn from 0..MaxSeed
Scale == 2          \* action arguments are multiples of 1/Scale

(***************************************************************************)
(* Values                                                                  *)
(***************************************************************************)
Undefined == <<>>
Some(v) == <<v>>

Throw(h, name) == [objs |-> h, ret |-> [kind |-> "throw", error |-> name]]
Threw(r) == r.kind = "throw"

\* (variant) the index is truncated to an integer and clamped into the array
ArrayGet_clamped(arr, x) ==
    LET i == x \div Scale
    IN  Some(arr[IF i < 0 THEN 1 ELSE IF i + 1 > Len(arr) THEN Len(arr) ELSE i + 1])

\* arr[x] of JavaScript for a number x: undefined unless x is an integer index
ArrayGet(arr, x) ==
    IF x % Scale = 0 /\ (x \div Scale) + 1 \in 1..Len(arr)
    THEN Some(arr[(x \div Scale) + 1])
    ELSE Undefined

(***************************************************************************)
(* Random source (Random over an engine created from a seed)               *)
(***************************************************************************)
Den == 4
Modulus == 8

Entropy == 0..(Modulus - 1)

EngineNext(x) == (5 * x + 3) % Modulus

RECURSIVE EngineAfter(_, _)
EngineAfter(x, n) == IF n = 0 THEN x ELSE EngineAfter(EngineNext(x), n - 1)

\* the n-th value random.real() returns from engine state x: u/Den in [0, 1)
Real(x, n) == (EngineAfter(x, n) * Den) \div Modulus

\* Seeding.random(seed): [random, seed1]; an absent seed is entropy-derived
SeedingRandom(seed, entropy) ==
    LET seed1 == IF seed = Undefined THEN entropy ELSE seed[1]
    IN  [random |-> seed1 % Modulus, seed |-> seed1]

(***************************************************************************)
(* categoricalSample                                                       *)
(***************************************************************************)
RECURSIVE cumsum(_)
cumsum(p) ==
    IF p = <<>> THEN <<>>
    ELSE LET c == cumsum(SubSeq(p, 1, Len(p) - 1))
         IN  Append(c, (IF c = <<>> THEN 0 ELSE c[Len(c)]) + p[Len(p)])

\* (variant) the position counted from 1
argmax_oneBased(v) ==
    CHOOSE i \in 1..Len(v) : /\ \A j \in 1..Len(v) : v[j] <= v[i]
                             /\ \A j \in 1..(i - 1) : v[j] < v[i]

\* index (from 0) of the first maximal element
argmax(v) ==
    (CHOOSE i \in 1..Len(v) : /\ \A j \in 1..Len(v) : v[j] <= v[i]
                              /\ \A j \in 1..(i - 1) : v[j] < v[i]) - 1

\* n.map(v => v > random.real() ? 1 : 0).argmax(): the callback runs once per
\* element, so element i is compared with the i-th variate drawn
categoricalSample(probN, random) ==
    LET n == cumsum(probN)
        flags == [i \in 1..Len(n) |-> IF n[i] > Real(random, i) THEN 1 ELSE 0]
    IN  [value |-> argmax(flags), random |-> EngineAfter(random, Len(n))]

(***************************************************************************)
(* Transition tables given to the DiscreteEnv constructor                  *)
(* P[s][a] = <<probability, nextState, reward, done>>, ...                 *)
(***************************************************************************)
Configs ==
    << [ isd |-> <<2, 0, 2>>,
         P   |-> << << << <<2, 0, 0, FALSE>>, <<0, 1, 5, FALSE>>, <<2, 2, 1, TRUE>> >>,
                       << <<4, 1, 0, FALSE>> >> >>,
                    << << <<1, 0, 0, FALSE>>, <<3, 2, 1, TRUE>> >>,
                       << <<4, 1, 3, FALSE>> >> >>,
                    << << <<4, 2, 0, TRUE>> >>,
                       << <<2, 0, 0, FALSE>>, <<2, 1, 2, FALSE>> >> >> >> ],
       [ isd |-> <<0, 4, 0>>,
         P   |-> << << << <<4, 1, 1, FALSE>> >>,
                       << <<4, 2, 2, TRUE>> >> >>,
                    << << <<3, 2, 4, TRUE>>, <<1, 0, 0, FALSE>> >>,
                       << <<4, 0, 1, FALSE>> >> >>,
                    << << <<4, 2, 0, TRUE>> >>,
                       << <<4, 0, 0, FALSE>> >> >> >> ] >>

\* the fields P and isd of a DiscreteEnv hold references to the caller's
\* tables: a reference is the index of the table in Configs
TableP(ref) == Configs[ref].P
TableIsd(ref) == Configs[ref].isd

(***************************************************************************)
(* Spaces                                                                  *)
(***************************************************************************)
Discrete(n) == [kind |-> "Discrete", n |-> n]

(***************************************************************************)
(* DiscreteEnv                                                             *)
(***************************************************************************)
\* (variant) the seed given is not used
DiscreteEnv_seed_ignoresSeed(h, o, seed, entropy) ==
    LET sr == SeedingRandom(Undefined, entropy)
    IN  [objs |-> [h EXCEPT ![o].random = sr.random],
         ret  |-> [kind |-> "seeds", seeds |-> <<sr.seed>>]]

\* (variant) seeding also redraws the current state
DiscreteEnv_seed_resamples(h, o, seed, entropy) ==
    LET sr == SeedingRandom(seed, entropy)
        c  == categoricalSample(TableIsd(h[o].isd), sr.random)
    IN  [objs |-> [h EXCEPT ![o].random = sr.random, ![o].s = c.value],
         ret  |-> [kind |-> "seeds", seeds |-> <<sr.seed>>]]

DiscreteEnv_seed(h, o, seed, entropy) ==
    LET sr == SeedingRandom(seed, entropy)
    IN  [objs |-> [h EXCEPT ![o].random = sr.random],
         ret  |-> [kind |-> "seeds", seeds |-> <<sr.seed>>]]

\* new DiscreteEnv({nS, nA, P, isd}): the object after the constructor
DiscreteEnv_new(cfg, entropy) ==
    LET nS == Len(TableP(cfg))
        nA == Len(TableP(cfg)[1])
        sr == SeedingRandom(Undefined, entropy)
        c  == categoricalSample(TableIsd(cfg), sr.random)
    IN  [kind |-> "DiscreteEnv",
         P |-> cfg, isd |-> cfg, nS |-> nS, nA |-> nA,
         actionSpace |-> Discrete(nA), observationSpace |-> Discrete(nS),
         random |-> c.random, s |-> c.value, lastAction |-> Undefined]

\* (variant) lastAction survives the reset
DiscreteEnv_reset_keepsAction(h, o) ==
    LET c == categoricalSample(TableIsd(h[o].isd), h[o].random)
    IN  [objs |-> [h EXCEPT ![o].s = c.value,
                            ![o].random = c.random],
         ret  |-> [kind |-> "observation", observation |-> <<c.value>>]]

DiscreteEnv_reset(h, o) ==
    LET c == categoricalSample(TableIsd(h[o].isd), h[o].random)
    IN  [objs |-> [h EXCEPT ![o].s = c.value,
                            ![o].random = c.random,
                            ![o].lastAction = Undefined],
         ret  |-> [kind |-> "observation", observation |-> <<c.value>>]]

\* (variant) the observation returned is the state the step started from
DiscreteEnv_step_staleObservation(h, o, action) ==
    LET transitions == ArrayGet(TableP(h[o].P)[h[o].s + 1], action)
    IN  IF transitions = Undefined
        THEN Throw(h, "TypeError")
        ELSE LET c == categoricalSample([j \in 1..Len(transitions[1]) |->
                                            transitions[1][j][1]], h[o].random)
                 t == transitions[1][c.value + 1]
             IN  [objs |-> [h EXCEPT ![o].s = t[2],
                                     ![o].random = c.random,
                                     ![o].lastAction = Some(action)],
                  ret  |-> [kind |-> "step", observation |-> <<h[o].s>>,
                            reward |-> t[3], done |-> t[4],
                            info |-> [prob |-> t[1]]]]

\* (variant) info reports the probability of the first outcome listed
DiscreteEnv_step_firstProbability(h, o, action) ==
    LET transitions == ArrayGet(TableP(h[o].P)[h[o].s + 1], action)
    IN  IF transitions = Undefined
        THEN Throw(h, "TypeError")
        ELSE LET c == categoricalSample([j \in 1..Len(transitions[1]) |->
                                            transitions[1][j][1]], h[o].random)
                 t == transitions[1][c.value + 1]
             IN  [objs |-> [h EXCEPT ![o].s = t[2],
                                     ![o].random = c.random,
                                     ![o].lastAction = Some(action)],
                  ret  |-> [kind |-> "step", observation |-> <<t[2]>>,
                            reward |-> t[3], done |-> t[4],
                            info |-> [prob |-> transitions[1][1][1]]]]

\* (variant) a state that P enters only with done = true is never left again
DiscreteEnv_step_absorbing(h, o, action) ==
    LET P == TableP(h[o].P)
        transitions == ArrayGet(P[h[o].s + 1], action)
        ended == \A s0 \in 1..Len(P) : \A a \in 1..Len(P[s0]) :
                     \A j \in 1..Len(P[s0][a]) :
                         P[s0][a][j][2] = h[o].s => P[s0][a][j][4]
    IN  IF transitions = Undefined
        THEN Throw(h, "TypeError")
        ELSE LET c == categoricalSample([j \in 1..Len(transitions[1]) |->
                                            transitions[1][j][1]], h[o].random)
                 t == transitions[1][c.value + 1]
             IN  [objs |-> [h EXCEPT ![o].s = IF ended THEN @ ELSE t[2],
                                     ![o].random = c.random,
                                     ![o].lastAction = Some(action)],
                  ret  |-> [kind |-> "step",
                            observation |-> <<IF ended THEN h[o].s ELSE t[2]>>,
                            reward |-> t[3], done |-> t[4],
                            info |-> [prob |-> t[1]]]]

\* (variant) lastAction is assigned before P is looked up
DiscreteEnv_step_actionFirst(h, o, action) ==
    LET transitions == ArrayGet(TableP(h[o].P)[h[o].s + 1], action)
    IN  IF transitions = Undefined
        THEN Throw([h EXCEPT ![o].lastAction = Some(action)], "TypeError")
        ELSE LET c == categoricalSample([j \in 1..Len(transitions[1]) |->
                                            transitions[1][j][1]], h[o].random)
                 t == transitions[1][c.value + 1]
             IN  [objs |-> [h EXCEPT ![o].s = t[2],
                                     ![o].random = c.random,
                                     ![o].lastAction = Some(action)],
                  ret  |-> [kind |-> "step", observation |-> <<t[2]>>,
                            reward |-> t[3], done |-> t[4],
                            info |-> [prob |-> t[1]]]]

DiscreteEnv_step(h, o, action) ==
    LET transitions == ArrayGet(TableP(h[o].P)[h[o].s + 1], action)
    IN  IF transitions = Undefined
        THEN Throw(h, "TypeError")   \* transitions.map of undefined
        ELSE LET c == categoricalSample([j \in 1..Len(transitions[1]) |->
                                            transitions[1][j][1]], h[o].random)
                 t == transitions[1][c.value + 1]
             IN  [objs |-> [h EXCEPT ![o].s = t[2],
                                     ![o].random = c.random,
                                     ![o].lastAction = Some(action)],
                  ret  |-> [kind |-> "step", observation |-> <<t[2]>>,
                            reward |-> t[3], done |-> t[4],
                            info |-> [prob |-> t[1]]]]

(***************************************************************************)
(* Wrapper family                                                          *)
(***************************************************************************)
WrapperKinds == {"Wrapper", "ObservationWrapper", "RewardWrapper", "ActionWrapper"}

\* new Wrapper(env): Env's constructor reads both spaces off its argument
Wrapper_new(h, kind, env) ==
    [kind |-> kind, env |-> env,
     actionSpace |-> h[env].actionSpace,
     observationSpace |-> h[env].observationSpace]

\* the hooks of the concrete subclasses used here
observation(obs) == [j \in 1..Len(obs) |-> 0 - obs[j]]
reward(r) == 2 * r + 1
action(a) == a + Scale

\* super.env: a lookup of `env` that starts at Wrapper.prototype; env is an
\* own property of the instance, set by the constructor, so none is found
SuperEnv(h, o) == Undefined

RECURSIVE step(_, _, _), reset(_, _), seed(_, _, _, _), unwrapped(_, _)

Env_unwrapped(h, o) == o

\* (variant) one level only
Wrapper_unwrapped_oneLevel(h, o) == h[o].env

Wrapper_unwrapped(h, o) == unwrapped(h, h[o].env)

\* (variant) the action is not passed on
Wrapper_step_ignoresAction(h, o, a) == step(h, h[o].env, 0)

Wrapper_step(h, o, a) == step(h, h[o].env, a)

Wrapper_reset(h, o) == reset(h, h[o].env)

Wrapper_seed(h, o, sd, entropy) == seed(h, h[o].env, sd, entropy)

\* (variant) the observation of reset is returned raw
ObservationWrapper_reset_raw(h, o) == reset(h, h[o].env)

ObservationWrapper_reset(h, o) ==
    LET r == reset(h, h[o].env)
    IN  IF Threw(r.ret) THEN r
        ELSE [r EXCEPT !.ret.observation = observation(@)]

ObservationWrapper_step(h, o, a) ==
    LET r == step(h, h[o].env, a)
    IN  IF Threw(r.ret) THEN r
        ELSE [r EXCEPT !.ret.observation = observation(@)]

RewardWrapper_reset(h, o) == reset(h, h[o].env)

\* (variant) the reward is returned raw
RewardWrapper_step_raw(h, o, a) == step(h, h[o].env, a)

RewardWrapper_step(h, o, a) ==
    LET r == step(h, h[o].env, a)
    IN  IF Threw(r.ret) THEN r
        ELSE [r EXCEPT !.ret.reward = reward(@)]

ActionWrapper_reset(h, o) ==
    LET e == SuperEnv(h, o)
    IN  IF e = Undefined THEN Throw(h, "TypeError")   \* reset of undefined
        ELSE reset(h, e[1])

ActionWrapper_step(h, o, a) ==
    LET e == SuperEnv(h, o)
    IN  IF e = Undefined THEN Throw(h, "TypeError")   \* step of undefined
        ELSE step(h, e[1], action(a))

\* close(): [objs, ret]; ret.closed lists the objects whose close() ran
RECURSIVE close(_, _)

\* Env.close does nothing
Env_close(h, o) == [objs |-> h, ret |-> [kind |-> "void", closed |-> <<o>>]]

\* (variant) the wrapped env is not closed
Wrapper_close_keepsInner(h, o) == Env_close(h, o)

Wrapper_close(h, o) ==
    LET r == close(h, h[o].env)
    IN  IF Threw(r.ret) THEN r
        ELSE [r EXCEPT !.ret.closed = <<o>> \o @]

close(h, o) ==
    CASE h[o].kind = "DiscreteEnv" -> Env_close(h, o)
      [] OTHER                     -> Wrapper_close(h, o)

\* method dispatch on the class of the receiver
step(h, o, a) ==
    CASE h[o].kind = "DiscreteEnv"        -> DiscreteEnv_step(h, o, a)
      [] h[o].kind = "Wrapper"            -> Wrapper_step(h, o, a)
      [] h[o].kind = "ObservationWrapper" -> ObservationWrapper_step(h, o, a)
      [] h[o].kind = "RewardWrapper"      -> RewardWrapper_step(h, o, a)
      [] h[o].kind = "ActionWrapper"      -> ActionWrapper_step(h, o, a)

reset(h, o) ==
    CASE h[o].kind = "DiscreteEnv"        -> DiscreteEnv_reset(h, o)
      [] h[o].kind = "Wrapper"            -> Wrapper_reset(h, o)
      [] h[o].kind = "ObservationWrapper" -> ObservationWrapper_reset(h, o)
      [] h[o].kind = "RewardWrapper"      -> RewardWrapper_reset(h, o)
      [] h[o].kind = "ActionWrapper"      -> ActionWrapper_reset(h, o)

seed(h, o, sd, entropy) ==
    CASE h[o].kind = "DiscreteEnv" -> DiscreteEnv_seed(h, o, sd, entropy)
      [] OTHER                     -> Wrapper_seed(h, o, sd, entropy)

unwrapped(h, o) ==
    CASE h[o].kind = "DiscreteEnv" -> Env_unwrapped(h, o)
      [] OTHER                     -> Wrapper_unwrapped(h, o)

(***************************************************************************)
(* Inputs                                                                  *)
(***************************************************************************)
NumActions == Len(TableP(1)[1])

\* -1, a non-integer, and 0 .. nA (nA itself is out of range)
ActionInputs == {0 - Scale, 1} \cup {a * Scale : a \in 0..NumActions}

ValidActions == {a * Scale : a \in 0..(NumActions - 1)}

SeedInputs == {Undefined} \cup {Some(k) : k \in 0..MaxSeed}

\* under wrappers: the valid actions and nA, and two entropy outcomes
WrapActionInputs == {a * Scale : a \in 0..NumActions}

WrapEntropy == {3, 6}

NoCall == [op |-> "none", obj |-> 0, arg |-> <<>>, ret |-> [kind |-> "none"]]

(***************************************************************************)
(* One base DiscreteEnv and a chain of wrappers around it                  *)
(***************************************************************************)
RegistryIdle ==
    /\ envSpecs = <<>>
    /\ registered = {}
    /\ given = <<>>
    /\ regLast = NoCall

Init ==
    /\ \E c \in 1..Len(Configs), e \in Entropy : objs = <<DiscreteEnv_new(c, e)>>
    /\ last = NoCall
    /\ pre = <<>>
    /\ seeded = <<>>
    /\ log = <<>>
    /\ RegistryIdle

\* new <kind>(env) around the outermost Env built so far
Wrap(kind) ==
    /\ Len(objs) < 1 + MaxWrappers
    /\ objs' = Append(objs, Wrapper_new(objs, kind, Len(objs)))
    /\ UNCHANGED <<last, pre, seeded, log, envSpecs, registered, given, regLast>>

Call(op, o, arg, r) ==
    /\ objs' = r.objs
    /\ last' = [op |-> op, obj |-> o, arg |-> arg, ret |-> r.ret]
    /\ pre' = <<objs[1]>>
    /\ UNCHANGED <<seeded, log, envSpecs, registered, given, regLast>>

Step(o, a) == Call("step", o, <<a>>, step(objs, o, a))

Reset(o) == Call("reset", o, <<>>, reset(objs, o))

Seed(o, sd, entropy) == Call("seed", o, sd, seed(objs, o, sd, entropy))

Close(o) == Call("close", o, <<>>, close(objs, o))

\* a single DiscreteEnv, called directly
Next ==
    \/ \E a \in ActionInputs : Step(1, a)
    \/ Reset(1)
    \/ \E sd \in SeedInputs :
          \E e \in (IF sd = Undefined THEN Entropy ELSE {0}) : Seed(1, sd, e)

Spec == Init /\ [][Next]_vars

\* a DiscreteEnv under a chain of wrappers, called on any layer
NextWrap ==
    \/ \E kind \in WrapperKinds : Wrap(kind)
    \/ \E o \in 1..Len(objs), a \in WrapActionInputs : Step(o, a)
    \/ \E o \in 1..Len(objs) : Reset(o)
    \/ \E o \in 1..Len(objs), sd \in SeedInputs :
          \E e \in (IF sd = Undefined THEN WrapEntropy ELSE {0}) : Seed(o, sd, e)
    \/ \E o \in 1..Len(objs) : Close(o)

SpecWrap == Init /\ [][NextWrap]_vars

(***************************************************************************)
(* Properties of DiscreteEnv (specification Spec)                          *)
(***************************************************************************)
\* membership in Discrete(n) as the contract states it: an integer in [0, n)
IsMember(x, n) == x % Scale = 0 /\ 0 <= x \div Scale /\ x \div Scale < n

\* the direct call on the base Env that matches the most recent call
DirectCall ==
    CASE last.op = "step"  -> DiscreteEnv_step(pre, 1, last.arg[1])
      [] last.op = "reset" -> DiscreteEnv_reset(pre, 1)
      [] last.op = "seed"  ->
            DiscreteEnv_seed(pre, 1, last.arg,
                             IF Threw(last.ret) THEN 0 ELSE last.ret.seeds[1])

StepOnBase == last.op = "step" /\ last.obj = 1

ValidStep == StepOnBase /\ IsMember(last.arg[1], pre[1].nA)

\* the outcomes listed in P[s][action] for the state the step started from
Outcomes == TableP(pre[1].P)[pre[1].s + 1][(last.arg[1] \div Scale) + 1]

\* C2: a step with a valid action returns the nextState, reward and done of
\* one tuple of P[s][action], moves s to that nextState, sets lastAction to
\* the action, and the observation returned is the new s.
C2_StepTakesOneOutcome ==
    ValidStep =>
        /\ last.ret.kind = "step"
        /\ \E j \in 1..Len(Outcomes) :
              /\ objs[1].s = Outcomes[j][2]
              /\ last.ret.observation = <<Outcomes[j][2]>>
              /\ last.ret.reward = Outcomes[j][3]
              /\ last.ret.done = Outcomes[j][4]
        /\ objs[1].lastAction = Some(last.arg[1])
        /\ last.ret.observation = <<objs[1].s>>

C2_Witness ==
    /\ ValidStep
    /\ Len(Outcomes) > 1
    /\ last.ret.kind = "step"
    /\ last.ret.done
    /\ objs[1].s # pre[1].s
    /\ pre[1].lastAction # Undefined
    /\ pre[1].lastAction # objs[1].lastAction

\* a state that is only ever entered by a transition with done = TRUE
IsTerminal(ref, st) ==
    \A s0 \in 1..Len(TableP(ref)) : \A a \in 1..Len(TableP(ref)[s0]) :
        \A j \in 1..Len(TableP(ref)[s0][a]) :
            TableP(ref)[s0][a][j][2] = st => TableP(ref)[s0][a][j][4]

ResetOnBase == last.op = "reset" /\ last.obj = 1

\* C3: reset() succeeds in whatever state it is called; it draws a new s over
\* isd from the env's random source, clears lastAction and returns [s].
C3_ResetResamples ==
    ResetOnBase =>
        /\ last.ret.kind = "observation"
        /\ last.ret.observation = <<objs[1].s>>
        /\ objs[1].s \in 0..(Len(TableIsd(objs[1].isd)) - 1)
        /\ objs[1].lastAction = Undefined
        /\ objs[1].random = EngineAfter(pre[1].random, Len(TableIsd(pre[1].isd)))
        /\ objs[1] = [pre[1] EXCEPT !.s = objs[1].s, !.random = objs[1].random,
                                    !.lastAction = Undefined]

\* a reset issued after a step that ended the episode
C3_Witness ==
    /\ ResetOnBase
    /\ last.ret.kind = "observation"
    /\ pre[1].lastAction # Undefined
    /\ IsTerminal(pre[1].P, pre[1].s)
    /\ objs[1].s # pre[1].s

\* C4: a step whose action is not a member of actionSpace raises, and the
\* env is left as it was (s and lastAction in particular).
C4_InvalidActionRaises ==
    (StepOnBase /\ ~IsMember(last.arg[1], pre[1].nA)) =>
        /\ Threw(last.ret)
        /\ objs[1].s = pre[1].s
        /\ objs[1].lastAction = pre[1].lastAction

\* a non-integer action after a completed step
C4_Witness ==
    /\ StepOnBase
    /\ last.arg[1] % Scale # 0
    /\ Threw(last.ret)
    /\ pre[1].lastAction # Undefined
    /\ objs[1] = pre[1]

(***************************************************************************)
(* Properties of the Wrapper family (specification SpecWrap)               *)
(***************************************************************************)
\* the heap as it was before the most recent call: wrappers never change
PreHeap == [objs EXCEPT ![1] = pre[1]]

Called(ops) == last.op \in ops /\ last.obj \in 1..Len(objs)

\* what the same call returns when made on Env e of the heap before the call
CallOn(e) ==
    CASE last.op = "step"  -> step(PreHeap, e, last.arg[1])
      [] last.op = "reset" -> reset(PreHeap, e)

RECURSIVE AllPlain(_)
AllPlain(o) ==
    \/ objs[o].kind = "DiscreteEnv"
    \/ objs[o].kind = "Wrapper" /\ AllPlain(objs[o].env)

\* C5: through any number of Wrappers that override nothing, seed, reset and
\* step return what the base Env returns for the same call and leave the
\* base Env in the state the direct call leaves it in.
C5_WrapperTransparent ==
    (Called({"step", "reset", "seed"}) /\ AllPlain(last.obj)) =>
        /\ last.ret = DirectCall.ret
        /\ objs[1] = DirectCall.objs[1]

C5_Witness ==
    /\ Called({"step"})
    /\ last.obj = 3
    /\ AllPlain(last.obj)
    /\ last.ret.kind = "step"
    /\ last.arg[1] # 0
    /\ objs[1].s # pre[1].s

IsKind(o, kind) == objs[o].kind = kind

\* C6: an ObservationWrapper returns the inner env's reset and step results
\* with the hook applied once to the observation and nothing else changed;
\* two stacked negating wrappers return the observation of the env below.
C6_ObservationHookOnce ==
    (Called({"step", "reset"}) /\ IsKind(last.obj, "ObservationWrapper")) =>
        LET inner == objs[last.obj].env
            below == CallOn(inner)
        IN  /\ objs[1] = below.objs[1]
            /\ Threw(below.ret) => last.ret = below.ret
            /\ ~Threw(below.ret) =>
                  /\ last.ret = [below.ret EXCEPT !.observation = observation(@)]
                  /\ IsKind(inner, "ObservationWrapper") =>
                        last.ret.observation =
                            CallOn(objs[inner].env).ret.observation

C6_Witness ==
    /\ Called({"reset"})
    /\ IsKind(last.obj, "ObservationWrapper")
    /\ IsKind(objs[last.obj].env, "ObservationWrapper")
    /\ last.ret.kind = "observation"
    /\ last.ret.observation # <<0>>
    /\ last.ret.observation = <<objs[1].s>>

\* C7: a RewardWrapper returns the inner env's step with only the reward
\* replaced by reward(raw), and the inner env's reset result untouched.
C7_RewardHookOnlyOnStep ==
    (Called({"step", "reset"}) /\ IsKind(last.obj, "RewardWrapper")) =>
        LET below == CallOn(objs[last.obj].env)
        IN  /\ objs[1] = below.objs[1]
            /\ (last.op = "reset" \/ Threw(below.ret)) => last.ret = below.ret
            /\ (last.op = "step" /\ ~Threw(below.ret)) =>
                  /\ last.ret = [below.ret EXCEPT !.reward = reward(@)]
                  /\ last.ret.reward # below.ret.reward

C7_Witness ==
    /\ Called({"step"})
    /\ IsKind(last.obj, "RewardWrapper")
    /\ last.ret.kind = "step"
    /\ last.ret.reward = reward(DirectCall.ret.reward)
    /\ last.ret.reward > 1

\* C8: an ActionWrapper's step(a) returns what the wrapped env's step returns
\* for action(a), its reset returns what the wrapped env's reset returns, and
\* both complete whenever the wrapped env's call completes.
C8_ActionWrapperForwards ==
    (Called({"step", "reset"}) /\ IsKind(last.obj, "ActionWrapper")) =>
        LET inner == objs[last.obj].env
            below == IF last.op = "step"
                     THEN step(PreHeap, inner, action(last.arg[1]))
                     ELSE reset(PreHeap, inner)
        IN  /\ last.ret = below.ret
            /\ objs[1] = below.objs[1]

\* C9: unwrapped, evaluated on any layer of a wrapper chain and on the base
\* Env itself, is the base Env (object 1, the one Env that is no Wrapper).
C9_UnwrappedIsBase ==
    \A o \in 1..Len(objs) :
        /\ unwrapped(objs, o) = 1
        /\ objs[unwrapped(objs, o)].kind \notin WrapperKinds

C9_Witness ==
    /\ Len(objs) >= 3
    /\ objs[Len(objs)].env # 1
    /\ unwrapped(objs, Len(objs)) = 1

(***************************************************************************)
(* Two DiscreteEnv instances built with the same P and isd                 *)
(* (specification SpecPair)                                                *)
(***************************************************************************)
Pair == {1, 2}

InitPair ==
    /\ \E c \in 1..Len(Configs), e1 \in Entropy, e2 \in Entropy :
          objs = <<DiscreteEnv_new(c, e1), DiscreteEnv_new(c, e2)>>
    /\ last = NoCall
    /\ pre = <<>>
    /\ seeded = <<Undefined, Undefined>>
    /\ log = << <<>>, <<>> >>
    /\ RegistryIdle

\* calls are recorded from a seed(k) on; a seed starts a new record
Record(i, op, arg, r) ==
    /\ seeded[i] # Undefined => Len(log[i]) < MaxLog
    /\ objs' = r.objs
    /\ log' = IF seeded[i] = Undefined THEN log
              ELSE [log EXCEPT ![i] = Append(@, [op |-> op, arg |-> arg, ret |-> r.ret])]
    /\ UNCHANGED <<last, pre, seeded, envSpecs, registered, given, regLast>>

PairSeed(i, sd, entropy) ==
    /\ objs' = seed(objs, i, sd, entropy).objs
    /\ seeded' = [seeded EXCEPT ![i] = sd]
    /\ log' = [log EXCEPT ![i] = <<>>]
    /\ UNCHANGED <<last, pre, envSpecs, registered, given, regLast>>

PairReset(i) == Record(i, "reset", <<>>, reset(objs, i))

PairStep(i, a) == Record(i, "step", <<a>>, step(objs, i, a))

NextPair ==
    \/ \E i \in Pair, sd \in SeedInputs, e \in Entropy : PairSeed(i, sd, e)
    \/ \E i \in Pair : PairReset(i)
    \/ \E i \in Pair, a \in ValidActions : PairStep(i, a)

SpecPair == InitPair /\ [][NextPair]_vars

CallsOf(l) == [j \in 1..Len(l) |-> [op |-> l[j].op, arg |-> l[j].arg]]

RetsOf(l) == [j \in 1..Len(l) |-> l[j].ret]

\* both instances were seeded with the same k and given the same calls since
SameSeedSameCalls ==
    /\ seeded[1] # Undefined
    /\ seeded[1] = seeded[2]
    /\ CallsOf(log[1]) = CallsOf(log[2])

\* steps only, with or without a reset in front
StepsAfterOptionalReset(l) == \A j \in 2..Len(l) : l[j].op = "step"

\* C1 as stated: after seed(k) on both, the same actions give the same
\* (observation, reward, done, info), whether or not a reset() comes first.
C1_DeterminismAfterSeed ==
    (SameSeedSameCalls /\ StepsAfterOptionalReset(log[1])) =>
        RetsOf(log[1]) = RetsOf(log[2])

\* C1 amended: after seed(k) and then reset() on both, the same calls give
\* the same returns on both.
C1_DeterminismAfterSeedAndReset ==
    (SameSeedSameCalls /\ Len(log[1]) > 0 /\ log[1][1].op = "reset") =>
        RetsOf(log[1]) = RetsOf(log[2])

\* seeded alike, reset and stepped, although built in different states
C1_Witness ==
    /\ SameSeedSameCalls
    /\ Len(log[1]) >= 2
    /\ log[1][1].op = "reset"
    /\ log[1][2].op = "step"
    /\ log[1][2].ret.kind = "step"
    /\ RetsOf(log[1]) = RetsOf(log[2])
    /\ objs[1].s = objs[2].s

(***************************************************************************)
(* EnvSpec and EnvRegistry (specification SpecReg)                         *)
(***************************************************************************)
\* a plain object is the list of its own properties <<key, value>> in
\* insertion order; its prototype is Object.prototype
ObjectPrototypeKeys == {"toString"}

HasOwn(obj, key) == \E j \in 1..Len(obj) : obj[j][1] = key

OwnValue(obj, key) == obj[CHOOSE j \in 1..Len(obj) : obj[j][1] = key][2]

\* obj[key]: an own property, else one inherited from Object.prototype
PropertyGet(obj, key) ==
    IF HasOwn(obj, key) THEN Some(OwnValue(obj, key))
    ELSE IF key \in ObjectPrototypeKeys
         THEN Some([kind |-> "function", name |-> key])
         ELSE Undefined

\* obj[key] = value
PropertySet(obj, key, value) ==
    IF HasOwn(obj, key)
    THEN [j \in 1..Len(obj) |-> IF obj[j][1] = key THEN <<key, value>> ELSE obj[j]]
    ELSE Append(obj, <<key, value>>)

\* a property of an argument map, undefined when absent
Field(args, key) == IF key \in DOMAIN args THEN Some(args[key]) ELSE Undefined

\* (variant) a registered default wins over the caller's value
ObjectAssign_defaultsWin(a, b) ==
    IF b = Undefined THEN a
    ELSE [k \in (DOMAIN a) \cup (DOMAIN b[1]) |->
            IF k \in DOMAIN a THEN a[k] ELSE b[1][k]]

\* Object.assign({ }, a, b) for an optional b
ObjectAssign(a, b) ==
    IF b = Undefined THEN a
    ELSE [k \in (DOMAIN a) \cup (DOMAIN b[1]) |->
            IF k \in DOMAIN b[1] THEN b[1][k] ELSE a[k]]

\* new EnvSpec(...): register always passes args, so `args ?? { }` is args
EnvSpec_new(id, entryPoint, rewardThreshold, nondeterministic, maxEpisodeSteps, args) ==
    [kind |-> "EnvSpec", id |-> id, entryPoint |-> entryPoint,
     rewardThreshold |-> rewardThreshold,
     nondeterministic |-> IF nondeterministic = Undefined THEN FALSE
                          ELSE nondeterministic[1],
     maxEpisodeSteps |-> maxEpisodeSteps,
     args |-> args]

\* new this.entryPoint(args): the instance is known by its class and args;
\* built lists the constructor invocations made, [ret, built]
EnvSpec_make(spec, args) ==
    LET merged == ObjectAssign(spec.args, args)
    IN  [ret   |-> [kind |-> "env", class |-> spec.entryPoint, args |-> merged],
         built |-> <<[class |-> spec.entryPoint, args |-> merged]>>]

EnvRegistry_spec(specs, id) == PropertyGet(specs, id)

\* this.spec(path)?.make(args), [ret, built]
EnvRegistry_make(specs, path, args) ==
    LET found == EnvRegistry_spec(specs, path)
    IN  IF found = Undefined
        THEN [ret |-> [kind |-> "undefined"], built |-> <<>>]
        ELSE IF found[1].kind = "EnvSpec" THEN EnvSpec_make(found[1], args)
        ELSE [ret   |-> [kind |-> "throw", error |-> "TypeError"],
              built |-> <<>>]   \* make is not a function

EnvRegistry_all(specs) == [j \in 1..Len(specs) |-> specs[j][2]]

\* [envSpecs, ret]
EnvRegistry_register(specs, id, args) ==
    IF PropertyGet(specs, id) # Undefined
    THEN [envSpecs |-> specs, ret |-> [kind |-> "throw", error |-> "Error"]]
    ELSE LET created == EnvSpec_new(id, args.entryPoint,
                                    Field(args, "rewardThreshold"),
                                    Field(args, "nondeterministic"),
                                    Field(args, "maxEpisodeSteps"), args)
         IN  [envSpecs |-> PropertySet(specs, id, created), ret |-> created]

Ids == {"a", "b", "toString"}

RegisterInputs ==
    { [entryPoint |-> "EnvA"],
      [entryPoint |-> "EnvB", size |-> 4],
      [entryPoint |-> "EnvA", size |-> 2, nondeterministic |-> TRUE] }

MakeInputs == {Undefined, Some([size |-> 8]), Some([mode |-> 1])}

InitReg ==
    /\ objs = <<>>
    /\ last = NoCall
    /\ pre = <<>>
    /\ seeded = <<>>
    /\ log = <<>>
    /\ RegistryIdle

RegistryCall(op, id, arg, specs, ret, built) ==
    /\ envSpecs' = specs
    /\ regLast' = [op |-> op, id |-> id, arg |-> arg, ret |-> ret,
                   built |-> built, before |-> envSpecs, known |-> registered]
    /\ registered' = IF op = "register" /\ ret.kind # "throw"
                     THEN registered \cup {id} ELSE registered
    /\ given' = IF op = "register" /\ ret.kind # "throw"
                THEN (id :> arg[1]) @@ given ELSE given
    /\ UNCHANGED <<objs, last, pre, seeded, log>>

Register(id, args) ==
    LET r == EnvRegistry_register(envSpecs, id, args)
    IN  RegistryCall("register", id, Some(args), r.envSpecs, r.ret, <<>>)

Make(id, args) ==
    LET r == EnvRegistry_make(envSpecs, id, args)
    IN  RegistryCall("make", id, args, envSpecs, r.ret, r.built)

SpecOf(id) ==
    RegistryCall("spec", id, Undefined, envSpecs,
                 [kind |-> "value", value |-> EnvRegistry_spec(envSpecs, id)], <<>>)

All ==
    RegistryCall("all", "", Undefined, envSpecs,
                 [kind |-> "value", value |-> EnvRegistry_all(envSpecs)], <<>>)

NextReg ==
    \/ \E id \in Ids, args \in RegisterInputs : Register(id, args)
    \/ \E id \in Ids, args \in MakeInputs : Make(id, args)
    \/ \E id \in Ids : SpecOf(id)
    \/ All

SpecReg == InitReg /\ [][NextReg]_vars

\* C10: register(id, args) raises exactly when an earlier register call for
\* id returned (a first registration of any id succeeds), and a register
\* that raises leaves every entry as it was.
C10_RegisterRejectsOnlyDuplicates ==
    regLast.op = "register" =>
        /\ Threw(regLast.ret) <=> regLast.id \in regLast.known
        /\ Threw(regLast.ret) => envSpecs = regLast.before

\* the argument map make has to construct with: every key of the override
\* with the override's value, every other registered key with its own
MergedUnder(defaults, override) ==
    /\ override = Undefined => regLast.ret.args = defaults
    /\ override # Undefined =>
          /\ DOMAIN regLast.ret.args = (DOMAIN defaults) \cup (DOMAIN override[1])
          /\ \A k \in DOMAIN override[1] : regLast.ret.args[k] = override[1][k]
          /\ \A k \in (DOMAIN defaults) \ (DOMAIN override[1]) :
                regLast.ret.args[k] = defaults[k]

\* C11: make(id, overrideArgs) for a registered id constructs the registered
\* entryPoint once, with the registered defaults merged under overrideArgs,
\* and leaves the stored EnvSpec (its defaults included) as it was.
C11_MakeMergesDefaultsUnderOverrides ==
    (regLast.op = "make" /\ regLast.id \in registered) =>
        /\ regLast.ret.kind = "env"
        /\ regLast.ret.class = given[regLast.id].entryPoint
        /\ MergedUnder(given[regLast.id], regLast.arg)
        /\ regLast.built = <<[class |-> regLast.ret.class, args |-> regLast.ret.args]>>
        /\ envSpecs = regLast.before
        /\ OwnValue(envSpecs, regLast.id).args = given[regLast.id]

\* an override that replaces a registered default and keeps another
C11_Witness ==
    /\ regLast.op = "make"
    /\ regLast.id \in registered
    /\ regLast.arg # Undefined
    /\ "size" \in DOMAIN regLast.arg[1]
    /\ "size" \in DOMAIN given[regLast.id]
    /\ regLast.ret.kind = "env"
    /\ regLast.ret.args.size # given[regLast.id].size
    /\ regLast.ret.args.entryPoint = given[regLast.id].entryPoint

(***************************************************************************)
(* close (specification SpecWrap)                                          *)
(***************************************************************************)
\* the layers from o down to the base Env, outermost first
RECURSIVE LayersFrom(_)
LayersFrom(o) ==
    IF objs[o].kind \in WrapperKinds THEN <<o>> \o LayersFrom(objs[o].env)
    ELSE <<o>>

\* C13: close() on a layer runs close() on every layer below it down to the
\* base Env; it never raises and changes nothing, so any number of calls
\* leaves the env in the state one call leaves it in.
C13_CloseReachesBaseAndIsIdempotent ==
    Called({"close"}) =>
        /\ last.ret.kind = "void"
        /\ last.ret.closed = LayersFrom(last.obj)
        /\ last.ret.closed[Len(last.ret.closed)] = 1
        /\ objs[1] = pre[1]
        /\ close(objs, last.obj) = [objs |-> objs, ret |-> last.ret]

\* close() on the outermost of two wrappers, after a completed step
C13_Witness ==
    /\ Called({"close"})
    /\ last.obj = 3
    /\ last.ret.kind = "void"
    /\ Len(last.ret.closed) = 3
    /\ objs[1].lastAction # Undefined

(***************************************************************************)
(* info and sampling of DiscreteEnv (specification Spec)                   *)
(***************************************************************************)
\* the tuple of P[s][action] the step returned: its nextState, reward, done
IsReturned(t) ==
    /\ last.ret.observation = <<t[2]>>
    /\ last.ret.reward = t[3]
    /\ last.ret.done = t[4]

\* C18 as stated: info maps the key `probability` to the probability of the
\* tuple whose nextState, reward and done the step returned.
C18_InfoProbabilityKey ==
    ValidStep =>
        /\ "probability" \in DOMAIN last.ret.info
        /\ \E j \in 1..Len(Outcomes) :
              IsReturned(Outcomes[j]) /\ last.ret.info.probability = Outcomes[j][1]

\* C18 amended: info maps the key `prob` to the probability of the tuple
\* whose nextState, reward and done the step returned.
C18_InfoProbKey ==
    ValidStep =>
        /\ DOMAIN last.ret.info = {"prob"}
        /\ \E j \in 1..Len(Outcomes) :
              IsReturned(Outcomes[j]) /\ last.ret.info.prob = Outcomes[j][1]

\* a step that took an outcome other than the first listed
C18_Witness ==
    /\ ValidStep
    /\ last.ret.kind = "step"
    /\ Len(Outcomes) > 1
    /\ ~IsReturned(Outcomes[1])
    /\ last.ret.info.prob # Outcomes[1][1]
    /\ last.ret.info.prob > 0

\* the first index (from 0) whose cumulative sum exceeds the variate u
FirstCrossing(p, u) ==
    CHOOSE i \in 0..(Len(p) - 1) :
        /\ cumsum(p)[i + 1] > u
        /\ \A j \in 1..i : ~(cumsum(p)[j] > u)

\* the probability vector the most recent reset or step sampled over
SampledOver ==
    IF last.op = "reset" THEN TableIsd(pre[1].isd)
    ELSE [j \in 1..Len(Outcomes) |-> Outcomes[j][1]]

\* the index the most recent reset or step selected
SelectedIndex ==
    IF last.op = "reset" THEN objs[1].s
    ELSE CHOOSE j \in 0..(Len(Outcomes) - 1) :
            IsReturned(Outcomes[j + 1]) /\ last.ret.info.prob = Outcomes[j + 1][1]

\* C20: one reset or one valid step draws exactly one variate u from the
\* env's random source and selects the first index i with cumsum[i] > u.
C20_OneDrawFirstCrossing ==
    (ResetOnBase \/ ValidStep) =>
        /\ objs[1].random = EngineAfter(pre[1].random, 1)
        /\ SelectedIndex = FirstCrossing(SampledOver, Real(pre[1].random, 1))

(***************************************************************************)
(* Spaces, GoalEnv and the DiscreteEnv constructor                         *)
(* (specification SpecSpace)                                               *)
(*                                                                         *)
(* The elements of a Box are integers between the two sentinels NegInf and *)
(* Infinity; an NdArray is its shape and its elements in row-major order.  *)
(***************************************************************************)
Infinity == 99
NegInf == 0 - Infinity

Number(v) == [kind |-> "number", v |-> v]
NdArray(shape, data) == [kind |-> "ndarray", shape |-> shape, data |-> data]

RECURSIVE Product(_)
Product(shape) == IF shape = <<>> THEN 1 ELSE Head(shape) * Product(Tail(shape))

\* NdArray.full(shape, v)
Full(shape, v) == NdArray(shape, [j \in 1..Product(shape) |-> v])

Error(name) == [kind |-> "throw", error |-> name]

\* new Discrete(n) for an optional n: assert(n >= 0) fails for undefined
Discrete_new(n) ==
    IF n = Undefined \/ ~(n[1] >= 0) THEN Error("AssertionError")
    ELSE Discrete(n[1])

Discrete_contains(space, x) == x >= 0 /\ x < space.n * Scale

\* Math.randint(n): the integers a sample() can return, in units of 1/Scale
Discrete_sample(space) == {v * Scale : v \in 0..(space.n - 1)}

Discrete_equal(space, other) == other.kind = "Discrete" /\ other.n = space.n

\* new Box(low, high, shape): low and high are numbers or NdArrays
Box_new(low, high, shape) ==
    LET isNum(a) == a.kind = "number"
        build(sh) ==
            LET lo == IF isNum(low) THEN Full(sh, low.v) ELSE low
                hi == IF isNum(high) THEN Full(sh, high.v) ELSE high
            IN  [kind |-> "Box", shape |-> sh, low |-> lo, high |-> hi,
                 boundedBelow |-> [j \in 1..Len(lo.data) |-> NegInf < lo.data[j]],
                 boundedAbove |-> [j \in 1..Len(hi.data) |-> Infinity > hi.data[j]]]
    IN  IF shape # Undefined
        THEN IF ~(isNum(low) \/ low.shape = shape[1]) THEN Error("AssertionError")
             ELSE IF ~(isNum(high) \/ high.shape = shape[1]) THEN Error("AssertionError")
             ELSE build(shape[1])
        ELSE IF ~isNum(low)
        THEN IF ~(isNum(high) \/ high.shape = low.shape) THEN Error("AssertionError")
             ELSE build(low.shape)
        ELSE IF ~isNum(high) THEN build(high.shape)
        ELSE Error("Error")

NdArray_all(flags) == \A j \in 1..Len(flags) : flags[j]

Box_isBounded_either(space, manner) ==
    LET bellow == NdArray_all(space.boundedBelow)
        above  == NdArray_all(space.boundedAbove)
        m      == IF manner = Undefined THEN "both" ELSE manner[1]
    IN  CASE m = "both"  -> [kind |-> "value", value |-> bellow \/ above]
          [] m = "below" -> [kind |-> "value", value |-> bellow]
          [] m = "above" -> [kind |-> "value", value |-> above]
          [] OTHER       -> Error("Error")

\* isBounded(manner) for an optional manner ('both' when absent)
Box_isBounded(space, manner) ==
    LET bellow == NdArray_all(space.boundedBelow)
        above  == NdArray_all(space.boundedAbove)
        m      == IF manner = Undefined THEN "both" ELSE manner[1]
    IN  CASE m = "both"  -> [kind |-> "value", value |-> bellow /\ above]
          [] m = "below" -> [kind |-> "value", value |-> bellow]
          [] m = "above" -> [kind |-> "value", value |-> above]
          [] OTHER       -> Error("Error")

Box_contains(space, x) == FALSE

Box_equal(space, other) == FALSE

\* new Dict(spaces): spaces lists <<key, sub-space>> in insertion order
Dict_new(spaces) == [kind |-> "Dict", shape |-> <<0>>, spaces |-> spaces]

Dict_has(space, key) == \E j \in 1..Len(space.spaces) : space.spaces[j][1] = key

Dict_contains(space, x) == FALSE

Dict_equal(space, other) == FALSE

\* dispatch on the class of the space
contains(space, x) ==
    CASE space.kind = "Discrete" -> Discrete_contains(space, x)
      [] space.kind = "Box"      -> Box_contains(space, x)
      [] space.kind = "Dict"     -> Dict_contains(space, x)

equal(space, other) ==
    CASE space.kind = "Discrete" -> Discrete_equal(space, other)
      [] space.kind = "Box"      -> Box_equal(space, other)
      [] space.kind = "Dict"     -> Dict_equal(space, other)

\* the values sample() can return, or the error it raises
sample(space) ==
    IF space.kind = "Discrete"
    THEN {[kind |-> "value", value |-> v] : v \in Discrete_sample(space)}
    ELSE {Error("Error")}

\* new GoalEnv({observationSpace}) for an optional observationSpace
GoalEnv_new(observationSpace) ==
    [kind |-> "GoalEnv", observationSpace |-> observationSpace]

GoalKeys == <<"observation", "achieved_goal", "desired_goal">>

GoalEnv_reset_skipsLastKey(env) ==
    IF env.observationSpace = Undefined \/ env.observationSpace[1].kind # "Dict"
    THEN Error("Error: GoalEnv requires an observation space of type gym.spaces.Dict")
    ELSE IF \E j \in 1..(Len(GoalKeys) - 1) : ~Dict_has(env.observationSpace[1], GoalKeys[j])
    THEN Error("Error: GoalEnv requires the key to be part of the observation dictionary")
    ELSE [kind |-> "observation", observation |-> <<>>]

GoalEnv_reset(env) ==
    IF env.observationSpace = Undefined \/ env.observationSpace[1].kind # "Dict"
    THEN Error("Error: GoalEnv requires an observation space of type gym.spaces.Dict")
    ELSE IF \E j \in 1..Len(GoalKeys) : ~Dict_has(env.observationSpace[1], GoalKeys[j])
    THEN Error("Error: GoalEnv requires the key to be part of the observation dictionary")
    ELSE [kind |-> "observation", observation |-> <<>>]

\* new DiscreteEnv(args) of a concrete subclass; every field of args is optional
\* and P and isd name a table of Configs
DiscreteEnv_constructor(args, entropy) ==
    LET actionSpace      == Discrete_new(args.nA)
        observationSpace == Discrete_new(args.nS)
        sr == SeedingRandom(Undefined, entropy)
        c  == categoricalSample(TableIsd(args.isd[1]), sr.random)
    IN  IF Threw(actionSpace) THEN actionSpace
        ELSE IF Threw(observationSpace) THEN observationSpace
        ELSE IF args.isd = Undefined THEN Error("TypeError")
        ELSE [kind |-> "DiscreteEnv",
              P |-> args.P, isd |-> args.isd, nS |-> args.nS, nA |-> args.nA,
              actionSpace |-> actionSpace, observationSpace |-> observationSpace,
              random |-> c.random, s |-> c.value, lastAction |-> Undefined]

(***************************************************************************)
(* Specification SpecEnv: a client constructs one environment at a time,   *)
(* a GoalEnv over some observation space or a DiscreteEnv from some        *)
(* arguments, and resets the GoalEnv it holds.  log[1] lists what the      *)
(* resets of the current GoalEnv returned.                                 *)
(***************************************************************************)
\* the lists of distinct keys out of keys
RECURSIVE KeyLists(_)
KeyLists(keys) ==
    {<<>>} \cup UNION {{<<k>> \o l : l \in KeyLists(keys \ {k})} : k \in keys}

DictKeys == {GoalKeys[j] : j \in 1..Len(GoalKeys)} \cup {"extra"}

DictOver(keys) == Dict_new([j \in 1..Len(keys) |-> <<keys[j], Discrete(2)>>])

ObservationSpaces ==
    {Undefined, Some(Discrete(3)), Some(Box_new(Number(0), Number(1), Some(<<2>>)))}
        \cup {Some(DictOver(keys)) : keys \in KeyLists(DictKeys)}

\* the argument object of the constructor; each field is optional
ConstructorArgs(nS, nA, P, isd) == [nS |-> nS, nA |-> nA, P |-> P, isd |-> isd]

SizeInputs(n) == {Undefined, Some(n)}

TableInputs == {Undefined} \cup {Some(c) : c \in 1..Len(Configs)}

InitEnv ==
    /\ objs = <<>>
    /\ last = NoCall
    /\ pre = <<>>
    /\ seeded = <<>>
    /\ log = <<>>
    /\ RegistryIdle

\* what the client holds after a constructor returned or threw r
Held(r) == IF Threw(r) THEN objs ELSE <<r>>

HeldLog(r) == IF Threw(r) THEN log ELSE <<<<>>>>

NewGoalEnv ==
    \E os \in ObservationSpaces :
        LET r == GoalEnv_new(os)
        IN  /\ objs' = Held(r)
            /\ log' = HeldLog(r)
            /\ last' = [op |-> "new GoalEnv", obj |-> 0, arg |-> <<os>>, ret |-> r]
            /\ UNCHANGED <<pre, seeded, envSpecs, registered, given, regLast>>

NewDiscreteEnv ==
    \E nS \in SizeInputs(Len(TableP(1))), nA \in SizeInputs(Len(TableP(1)[1])),
       P \in {Undefined, Some(1)}, isd \in TableInputs, e \in Entropy :
        LET args == ConstructorArgs(nS, nA, P, isd)
            r    == DiscreteEnv_constructor(args, e)
        IN  /\ objs' = Held(r)
            /\ log' = HeldLog(r)
            /\ last' = [op |-> "new DiscreteEnv", obj |-> 0, arg |-> <<args>>, ret |-> r]
            /\ UNCHANGED <<pre, seeded, envSpecs, registered, given, regLast>>

GoalReset ==
    /\ objs # <<>>
    /\ objs[1].kind = "GoalEnv"
    /\ Len(log[1]) < MaxLog
    /\ LET ret == GoalEnv_reset(objs[1])
       IN  /\ last' = [op |-> "reset", obj |-> 1, arg |-> <<>>, ret |-> ret]
           /\ log' = <<Append(log[1], ret)>>
    /\ UNCHANGED <<objs, pre, seeded, envSpecs, registered, given, regLast>>

NextEnv == NewGoalEnv \/ NewDiscreteEnv \/ GoalReset

SpecEnv == InitEnv /\ [][NextEnv]_vars

(***************************************************************************)
(* Properties of SpecEnv                                                   *)
(***************************************************************************)
HoldsGoalEnv == objs # <<>> /\ objs[1].kind = "GoalEnv"

\* the observation space is a Dict with the three goal keys among its keys
GoalCompatible(os) ==
    /\ os # Undefined
    /\ os[1].kind = "Dict"
    /\ {"observation", "achieved_goal", "desired_goal"}
           \subseteq {os[1].spaces[j][1] : j \in 1..Len(os[1].spaces)}

C12_Accepted ==
    /\ HoldsGoalEnv
    /\ GoalCompatible(objs[1].observationSpace)
    /\ Len(objs[1].observationSpace[1].spaces) = 4
    /\ Len(log[1]) >= 1

ConstructedDiscreteEnv == last.op = "new DiscreteEnv"

MissingFields(args) == {f \in {"nS", "nA", "P", "isd"} : args[f] = Undefined}

\* C17: constructing a DiscreteEnv with any of nS, nA, P, isd missing fails
\* inside the constructor, and no DiscreteEnv instance has one of the four
\* undefined
C17_MissingFieldFailsConstruction ==
    /\ ConstructedDiscreteEnv /\ MissingFields(last.arg[1]) # {} => Threw(last.ret)
    /\ objs # <<>> /\ objs[1].kind = "DiscreteEnv" => MissingFields(objs[1]) = {}

(***************************************************************************)
(* Specification SpecSpace: a client holds two spaces, objs[1] and         *)
(* objs[2], first two Discrete spaces of one size; it assigns a newly      *)
(* constructed Discrete, Box or Dict to either and calls contains, sample, *)
(* equal and isBounded on them.                                            *)
(***************************************************************************)
MaxN == 3

DiscreteInputs == {Undefined} \cup {Some(n) : n \in (0 - 1)..MaxN}

\* candidate members, in units of 1/Scale
ContainsInputs == (0 - Scale)..(MaxN * Scale)

LowInputs == {Number(NegInf), Number(0 - 1), NdArray(<<3>>, <<NegInf, 0, 0>>)}

HighInputs ==
    {Number(2), Number(Infinity), NdArray(<<3>>, <<2, Infinity, 2>>),
     NdArray(<<2>>, <<1, 1>>)}

ShapeInputs == {Undefined, Some(<<3>>), Some(<<3, 4>>)}

DictInputs ==
    {<<>>, <<<<"observation", Discrete(2)>>>>, <<<<"observation", Discrete(3)>>>>,
     <<<<"observation", Discrete(2)>>, <<"desired_goal", Discrete(2)>>>>}

MannerInputs == {Undefined, Some("both"), Some("below"), Some("above"), Some("neither")}

InitSpace ==
    /\ \E n \in 1..MaxN : objs = <<Discrete(n), Discrete(n)>>
    /\ last = NoCall
    /\ pre = <<>>
    /\ seeded = <<>>
    /\ log = <<>>
    /\ RegistryIdle

\* v = new ...: the variable keeps its space when the constructor throws
Assigned(i, r) == IF Threw(r) THEN objs ELSE [objs EXCEPT ![i] = r]

\* a call on a space: no method of a space changes it
SpaceCall(op, i, arg, ret) ==
    /\ last' = [op |-> op, obj |-> i, arg |-> arg, ret |-> ret]
    /\ UNCHANGED <<objs, pre, seeded, log, envSpecs, registered, given, regLast>>

NewDiscrete(i) ==
    \E n \in DiscreteInputs :
        LET r == Discrete_new(n)
        IN  /\ objs' = Assigned(i, r)
            /\ last' = [op |-> "new Discrete", obj |-> i, arg |-> <<n>>, ret |-> r]
            /\ UNCHANGED <<pre, seeded, log, envSpecs, registered, given, regLast>>

NewBox(i) ==
    \E low \in LowInputs, high \in HighInputs, shape \in ShapeInputs :
        LET r == Box_new(low, high, shape)
        IN  /\ objs' = Assigned(i, r)
            /\ last' = [op |-> "new Box", obj |-> i, arg |-> <<low, high, shape>>, ret |-> r]
            /\ UNCHANGED <<pre, seeded, log, envSpecs, registered, given, regLast>>

NewDict(i) ==
    \E spaces \in DictInputs :
        LET r == Dict_new(spaces)
        IN  /\ objs' = Assigned(i, r)
            /\ last' = [op |-> "new Dict", obj |-> i, arg |-> <<spaces>>, ret |-> r]
            /\ UNCHANGED <<pre, seeded, log, envSpecs, registered, given, regLast>>

Contains(i) ==
    \E x \in ContainsInputs :
        SpaceCall("contains", i, <<x>>, [kind |-> "value", value |-> contains(objs[i], x)])

\* Math.randint(0) has no integer to return: Discrete(0) is not sampled
Sample(i) ==
    /\ objs[i].kind = "Discrete" => objs[i].n >= 1
    /\ \E ret \in sample(objs[i]) : SpaceCall("sample", i, <<>>, ret)

Equal(i) ==
    \E j \in 1..Len(objs) :
        SpaceCall("equal", i, <<j>>, [kind |-> "value", value |-> equal(objs[i], objs[j])])

IsBounded(i) ==
    /\ objs[i].kind = "Box"
    /\ \E manner \in MannerInputs :
           SpaceCall("isBounded", i, <<manner>>, Box_isBounded(objs[i], manner))

NextSpace ==
    \E i \in 1..Len(objs) :
        \/ NewDiscrete(i)
        \/ NewBox(i)
        \/ NewDict(i)
        \/ Contains(i)
        \/ Sample(i)
        \/ Equal(i)
        \/ IsBounded(i)

SpecSpace == InitSpace /\ [][NextSpace]_vars

(***************************************************************************)
(* Properties of SpecSpace                                                 *)
(***************************************************************************)
Receiver == objs[last.obj]

\* C19: isBounded('below') is true exactly when every low is above -Infinity,
\* isBounded('above') exactly when every high is below +Infinity, and
\* isBounded('both'), the default, exactly when both hold; so Box(-1, 2, [3, 4])
\* is bounded on both sides and Box(-Infinity, 2, [3]) above but not below
C19_IsBoundedByManner ==
    last.op = "isBounded" /\ last.arg[1] \in {Undefined, Some("both"), Some("below"), Some("above")} =>
        LET box    == Receiver
            manner == IF last.arg[1] = Undefined THEN "both" ELSE last.arg[1][1]
            below  == \A j \in 1..Len(box.low.data) : box.low.data[j] > NegInf
            above  == \A j \in 1..Len(box.high.data) : box.high.data[j] < Infinity
        IN  /\ last.ret.kind = "value"
            /\ manner = "below" => (last.ret.value <=> below)
            /\ manner = "above" => (last.ret.value <=> above)
            /\ manner = "both" => (last.ret.value <=> below /\ above)
            /\ box.low = Full(<<3, 4>>, 0 - 1) /\ box.high = Full(<<3, 4>>, 2) /\ manner = "both"
                   => last.ret.value
            /\ box.low = Full(<<3>>, NegInf) /\ box.high = Full(<<3>>, 2)
                   => last.ret.value = (manner = "above")

\* Box(-Infinity, 2, [3]) has answered isBounded('below') with false
C19_Witness ==
    /\ last.op = "isBounded"
    /\ last.arg = <<Some("below")>>
    /\ Receiver.low = Full(<<3>>, NegInf)
    /\ Receiver.high = Full(<<3>>, 2)
    /\ last.ret = [kind |-> "value", value |-> FALSE]

\* x, in units of 1/Scale, is an integer of 0..n-1
IsElement(x, n) == \E v \in 0..(n - 1) : x = v * Scale

\* C14: for a Discrete(n) with n >= 1, what sample() returns satisfies contains,
\* and contains(x) is true exactly for the integers 0 <= x < n: 0.5 is no member
C14_ContainsExactlyTheIntegersBelowN ==
    last.op \in {"sample", "contains"} /\ Receiver.kind = "Discrete" /\ Receiver.n >= 1 =>
        /\ last.op = "sample" =>
               /\ last.ret.kind = "value"
               /\ Discrete_contains(Receiver, last.ret.value)
        /\ last.op = "contains" => (last.ret.value <=> IsElement(last.arg[1], Receiver.n))

\* C16: equal is structural for every kind of space (the same n, the same shape
\* and bounds, the same keys over equal sub-spaces), hence reflexive and symmetric
C16_EqualIsStructural ==
    last.op = "equal" =>
        /\ last.ret.value <=> (Receiver = objs[last.arg[1]])
        /\ last.arg[1] = last.obj => last.ret.value
        /\ last.ret.value <=> equal(objs[last.arg[1]], Receiver)

(***************************************************************************)
(* Specification SpecSeed: two Discrete spaces of one size are seeded and  *)
(* sampled in any order.  seeded[i] is the argument of the last seed call  *)
(* on objs[i] and log[i] lists what sample() returned on it since.         *)
(***************************************************************************)
\* Space.seed(k): Math.random() as a numerator over Den, k not used
Space_seed(space, k) == {[kind |-> "seeds", seeds |-> <<u>>] : u \in 0..(Den - 1)}

InitSeed ==
    /\ \E n \in 1..MaxN : objs = <<Discrete(n), Discrete(n)>>
    /\ last = NoCall
    /\ pre = <<>>
    /\ seeded = <<Undefined, Undefined>>
    /\ log = <<<<>>, <<>>>>
    /\ RegistryIdle

SeedSpace(i) ==
    \E k \in SeedInputs : \E ret \in Space_seed(objs[i], k) :
        /\ seeded' = [seeded EXCEPT ![i] = k]
        /\ log' = [log EXCEPT ![i] = <<>>]
        /\ last' = [op |-> "seed", obj |-> i, arg |-> <<k>>, ret |-> ret]
        /\ UNCHANGED <<objs, pre, envSpecs, registered, given, regLast>>

SampleSpace(i) ==
    /\ Len(log[i]) < MaxLog
    /\ \E ret \in sample(objs[i]) :
           /\ log' = [log EXCEPT ![i] = Append(@, ret.value)]
           /\ last' = [op |-> "sample", obj |-> i, arg |-> <<>>, ret |-> ret]
    /\ UNCHANGED <<objs, pre, seeded, envSpecs, registered, given, regLast>>

NextSeed == \E i \in 1..Len(objs) : SeedSpace(i) \/ SampleSpace(i)

SpecSeed == InitSeed /\ [][NextSeed]_vars

\* C15: seed(k) returns the seed it put to use, and two Discrete(n) seeded with
\* the same k return the same samples call for call, whatever else is sampled
C15_SeededSpacesSampleAlike ==
    /\ last.op = "seed" /\ last.arg[1] # Undefined => last.ret.seeds = <<last.arg[1][1] * Den>>
    /\ seeded[1] # Undefined /\ seeded[1] = seeded[2] =>
           \A j \in 1..Len(log[1]) : j <= Len(log[2]) => log[1][j] = log[2][j]

(***************************************************************************)
(* Properties of SpecReg, continued                                        *)
(***************************************************************************)
\* C26: make(id) and spec(id) for an id never registered raise nothing and
\* leave the registry as it was: spec returns undefined, and make returns
\* undefined without constructing an environment
C26_UnknownIdYieldsUndefined ==
    regLast.op \in {"make", "spec"} /\ regLast.id \notin regLast.known =>
        /\ ~Threw(regLast.ret)
        /\ envSpecs = regLast.before
        /\ regLast.built = <<>>
        /\ regLast.op = "spec" => regLast.ret = [kind |-> "value", value |-> Undefined]
        /\ regLast.op = "make" => regLast.ret = [kind |-> "undefined"]

(***************************************************************************)
(* Properties of a DiscreteEnv called directly (specification Spec),       *)
(* continued                                                               *)
(***************************************************************************)
RECURSIVE Sum(_)
Sum(p) == IF p = <<>> THEN 0 ELSE Head(p) + Sum(Tail(p))

\* isd has length nS and sums to 1; every P[s][a], s < nS and a < nA, is a
\* non-empty list whose probabilities sum to 1 and whose nextStates are below nS
WellFormed(env) ==
    LET P == TableP(env.P)
        isd == TableIsd(env.isd)
    IN  /\ Len(isd) = env.nS
        /\ Sum(isd) = Den
        /\ Len(P) = env.nS
        /\ \A st \in 1..env.nS :
              /\ Len(P[st]) = env.nA
              /\ \A a \in 1..env.nA :
                    /\ P[st][a] # <<>>
                    /\ Sum([j \in 1..Len(P[st][a]) |-> P[st][a][j][1]]) = Den
                    /\ \A j \in 1..Len(P[st][a]) : P[st][a][j][2] \in 0..(env.nS - 1)

\* C21: for well-formed isd and P, s is an integer in [0, nS) in every state
\* reached from construction by seed, reset and step calls
C21_StateStaysInRange ==
    WellFormed(objs[1]) => objs[1].s \in 0..(objs[1].nS - 1)

\* a step has moved a well-formed env into its last state, nS - 1
C21_Witness ==
    /\ WellFormed(objs[1])
    /\ ValidStep
    /\ last.ret.kind = "step"
    /\ pre[1].s # objs[1].s
    /\ objs[1].s = objs[1].nS - 1


\* C22: an outcome of probability 0 is never selected, whatever the draws:
\* construction and reset never put s on a state i with isd[i] = 0, and a step
\* never takes a tuple of P[s][action] whose probability is 0
C22_ZeroProbabilityNeverSelected ==
    /\ last.op = "none" \/ ResetOnBase => TableIsd(objs[1].isd)[objs[1].s + 1] # 0
    /\ ValidStep => last.ret.info.prob # 0


SeedOnBase == last.op = "seed" /\ last.obj = 1

\* C24: seed(seed) replaces the random source and nothing else (s, lastAction,
\* P, isd, nS, nA and the two spaces stay), and returns a list of one element,
\* the seed the new source was created from: the given seed when there is one
C24_SeedReplacesOnlyTheRandomSource ==
    SeedOnBase =>
        /\ last.ret.kind = "seeds"
        /\ Len(last.ret.seeds) = 1
        /\ last.arg # Undefined => last.ret.seeds = last.arg
        /\ objs[1].random = SeedingRandom(Some(last.ret.seeds[1]), 0).random
        /\ objs[1] = [pre[1] EXCEPT !.random = objs[1].random]

\* seed(k) after a completed step: the source changed, s and lastAction stayed
C24_Witness ==
    /\ SeedOnBase
    /\ last.arg # Undefined
    /\ pre[1].lastAction # Undefined
    /\ objs[1].random # pre[1].random
    /\ objs[1].s = pre[1].s
    /\ objs[1].lastAction = pre[1].lastAction

(***************************************************************************)
(* Specification SpecTrace: one DiscreteEnv called directly, with log the  *)
(* list of the calls made on it since construction, in order               *)
(***************************************************************************)
Traced(op, arg, r) ==
    /\ Len(log) < MaxLog
    /\ objs' = r.objs
    /\ last' = [op |-> op, obj |-> 1, arg |-> arg, ret |-> r.ret]
    /\ pre' = <<objs[1]>>
    /\ log' = Append(log, [op |-> op, arg |-> arg, ret |-> r.ret])
    /\ UNCHANGED <<seeded, envSpecs, registered, given, regLast>>

TracedStep == \E a \in ActionInputs : Traced("step", <<a>>, step(objs, 1, a))

TracedReset == Traced("reset", <<>>, reset(objs, 1))

TracedSeed ==
    \E sd \in SeedInputs :
        \E e \in (IF sd = Undefined THEN Entropy ELSE {0}) :
            Traced("seed", sd, seed(objs, 1, sd, e))

NextTrace == TracedStep \/ TracedReset \/ TracedSeed

SpecTrace == Init /\ [][NextTrace]_vars

Completed(call) == ~Threw(call.ret)

\* the action of the last completed step of the trace, undefined when a
\* completed reset followed it or no step completed at all
RECURSIVE LastStepAction(_)
LastStepAction(trace) ==
    IF trace = <<>> THEN Undefined
    ELSE LET call == trace[Len(trace)]
         IN  IF Completed(call) /\ call.op = "reset" THEN Undefined
             ELSE IF Completed(call) /\ call.op = "step" THEN Some(call.arg[1])
             ELSE LastStepAction(SubSeq(trace, 1, Len(trace) - 1))

\* C23: lastAction is undefined exactly when no step has completed since
\* construction or since the most recent reset, and is otherwise the action
\* argument of the most recent completed step
C23_LastActionIsLastCompletedStep ==
    objs[1].lastAction = LastStepAction(log)

\* a step that raised, after a completed step: lastAction is still the earlier action
C23_Witness ==
    /\ Len(log) >= 2
    /\ log[Len(log)].op = "step"
    /\ ~Completed(log[Len(log)])
    /\ log[Len(log) - 1].op = "step"
    /\ Completed(log[Len(log) - 1])
    /\ objs[1].lastAction = Some(log[Len(log) - 1].arg[1])

\* a step with a valid action right after a step that returned done = true
StepAfterDone ==
    /\ Len(log) >= 2
    /\ log[Len(log) - 1].op = "step"
    /\ Completed(log[Len(log) - 1])
    /\ log[Len(log) - 1].ret.done
    /\ ValidStep

\* C25: a step after a step that returned done = true, with no reset between,
\* neither raises nor freezes the state: it samples from P[s][action] for the
\* current s and updates s and lastAction as any step does; the environment
\* stores no done flag
C25_StepAfterDoneIsAnOrdinaryStep ==
    StepAfterDone =>
        /\ last.ret.kind = "step"
        /\ \E j \in 1..Len(Outcomes) :
              /\ objs[1].s = Outcomes[j][2]
              /\ last.ret.observation = <<Outcomes[j][2]>>
              /\ last.ret.reward = Outcomes[j][3]
              /\ last.ret.done = Outcomes[j][4]
        /\ objs[1].lastAction = Some(last.arg[1])
        /\ objs[1].random # pre[1].random
        /\ "done" \notin DOMAIN objs[1]

\* such a step has left the state the episode ended in
C25_Witness ==
    /\ StepAfterDone
    /\ last.ret.kind = "step"
    /\ objs[1].s # pre[1].s
    /\ ~last.ret.done

====
